---- MODULE Spec2Model ----
(***************************************************************************)
(* Reconciliation engine of PatentAutomationApp: the retry loop over the   *)
(* application numbers of one recipient, and the CSV artifact             *)
(* (patent_full_list.csv) into which the fetched field maps are upserted.  *)
(*                                                                         *)
(* Spec      one run of src/tkinter.py: start_processing, the worker       *)
(*           thread full_workflow with its per-email retry loop            *)
(*           process_email_applications, and stop_process in the           *)
(*           foreground.                                                   *)
(* SpecUpsert update_csv_with_email_data called any number of times on    *)
(*           the file initialize_csv_file wrote.                           *)
(* SpecStore the operations that write the artifact or the header lists,   *)
(*           invoked in any order on the file initialize_csv_file wrote.   *)
(* SpecPersist the try block of the retry loop for one application, with   *)
(*           the write of update_csv_with_email_data step by step.         *)
(* SpecWriters the same, with update_csv_with_specific_row as a second     *)
(*           writer of the artifact.                                       *)
(* SpecFilter generate_filtered_data on the filter settings and the        *)
(*           artifact it finds.                                            *)
(* SpecExport the check boxes of show_column_selection followed by         *)
(*           generate_filtered_data.                                       *)
(* SpecRun   the email loop for two recipients whose pages list A1 and A2, *)
(*           with the fields the details pages hold and the exception a    *)
(*           failed fetch raised.                                          *)
(* SpecThreads start_processing, stop_process and the threads running      *)
(*           full_workflow, any number of them alive.                      *)
(***************************************************************************)
EXTENDS Naturals, Sequences, FiniteSets, TLC

VARIABLES
    running,                      \* self.running
    stop_event,                   \* self.stop_event (set / clear)
    driver,                       \* self.driver: "none", "open", "quit"
    application_numbers,          \* self.application_numbers (a list)
    table_headers,                \* self.table_headers (a list)
    ad_headers,                   \* self.ad_headers (a list)
    column_vars,                  \* self.column_vars, the headers whose IntVar is 1
    ad_column_vars,               \* self.ad_column_vars, the headers whose IntVar is 1
    csv_file,                     \* config/patent_full_list.csv: [header, rows]
    pc,                           \* position of the worker thread
    all_emails,                   \* full_workflow: all_emails
    email_index,                  \* full_workflow: email_index
    attempt,                      \* process_email_applications: attempt
    failed_applications,          \* process_email_applications: failed_applications
    processed_numbers,            \* process_email_applications: processed_numbers
    current_failed_applications,  \* process_email_applications: current_failed_applications
    current_applications,         \* process_email_applications: current_applications
    pos,                          \* index of app_number in current_applications
    initial_numbers,              \* self.application_numbers when the retry loop was entered
    log,                          \* what the running process_email_applications has logged
    last_op,                      \* the last store operation and its arguments
    ops,                          \* SpecUpsert, SpecStore, SpecPersist: operations applied so far
    outcome,                      \* "aborted" once the worker has seen stop_event set
    filter_settings,              \* self.filter_settings, in the order of the dict
    filtered_rows,                \* generate_filtered_data: filtered_rows
    filtered_file,                \* Results/filtered_patent_list_<timestamp>.csv
    filter_log,                   \* what generate_filtered_data has logged
    pending,                      \* update_csv_with_email_data: headers and existing_data
    completed,                    \* the contents of the artifact after each finished write
    settings_files,               \* the settings files on disk, by path: their rows
    last_saved                    \* the settings on the screen when they were last saved

vars == <<running, stop_event, driver, application_numbers, table_headers,
          ad_headers, column_vars, ad_column_vars, csv_file, pc, all_emails,
          email_index, attempt, failed_applications, processed_numbers,
          current_failed_applications, current_applications, pos, initial_numbers,
          log, last_op, ops, outcome, filter_settings, filtered_rows, filtered_file,
          filter_log, pending, completed, settings_files, last_saved>>

\* the variables of generate_filtered_data
export_vars == <<filter_settings, filtered_rows, filtered_file, filter_log>>

\* the variables of a write of the artifact seen step by step
persist_vars == <<pending, completed>>

\* the variables of the settings kept from one start of the program to the next
settings_vars == <<settings_files, last_saved>>

\* what a run of the workflow leaves alone
side_vars == <<export_vars, persist_vars, settings_vars>>

\* the column selection, and the operation count of the store specifications
selection_vars == <<column_vars, ad_column_vars, ops>>

(***************************************************************************)
(* Bounds and input domains.                                               *)
(***************************************************************************)
MaxApps == 2      \* longest list of application numbers a page or the user gives
MaxOps == 3       \* store operations in one behaviour of SpecStore

max_retries == 2

Apps == {"A1", "A2"}
PrimaryEmail == "p@x"
\* the extra-emails box, split at commas and newlines
ExtraEmailTexts == {<<>>, <<"p@x", "a@x">>}
\* the application-number box, split at commas and newlines
UserNumberTexts == {<<>>, <<"A1">>}

RECURSIVE SeqsUpTo(_, _)
SeqsUpTo(S, n) ==
    IF n = 0 THEN {<<>>}
    ELSE LET shorter == SeqsUpTo(S, n - 1)
         IN  shorter \cup {Append(s, x) : s \in {t \in shorter : Len(t) = n - 1}, x \in S}

AppLists == SeqsUpTo(Apps, MaxApps)

\* thead cells of the portal's table, as extract_table_data reads them
PageHeaders == {<<>>, <<"Application Number", "Action">>}

\* what get_application_details returns for one application
DetailsData ==
    { [basic_row |-> <<>>, headers_col1 |-> <<>>, data_col1 |-> <<>>,
       headers_col3 |-> <<>>, data_col3 |-> <<>>],
      [basic_row |-> <<>>, headers_col1 |-> <<"Title">>, data_col1 |-> <<"Foo">>,
       headers_col3 |-> <<"Agent">>, data_col3 |-> <<"Bar">>] }

(***************************************************************************)
(* Lists.                                                                  *)
(***************************************************************************)
Range(s) == {s[i] : i \in DOMAIN s}

Contains(s, x) == \E i \in DOMAIN s : s[i] = x

Min(a, b) == IF a < b THEN a ELSE b

Perms(S) == {s \in [1..Cardinality(S) -> S] : Range(s) = S}

RECURSIVE FilterSeq(_, _)
FilterSeq(s, keep) ==
    IF s = <<>> THEN <<>>
    ELSE IF Head(s) \in keep THEN <<Head(s)>> \o FilterSeq(Tail(s), keep)
         ELSE FilterSeq(Tail(s), keep)

RECURSIVE AppendNew(_, _)
\* "for h in items: if h not in lst: lst.append(h)"
AppendNew(lst, items) ==
    IF items = <<>> THEN lst
    ELSE AppendNew(IF Contains(lst, Head(items)) THEN lst ELSE Append(lst, Head(items)),
                   Tail(items))

\* the last index of x in s (a dict built by "{h: i for i, h in enumerate(s)}")
LastIndex(s, x) == CHOOSE i \in DOMAIN s : s[i] = x /\ \A j \in DOMAIN s : s[j] = x => j <= i

(***************************************************************************)
(* The field map of one upsert: row_data of update_csv_with_email_data.    *)
(***************************************************************************)
Put(d, k, v) == [x \in (DOMAIN d) \cup {k} |-> IF x = k THEN v ELSE d[x]]

RECURSIVE PutBasic(_, _, _, _)
\* "for i, header in enumerate(self.table_headers): if i < len(basic_row): ..."
PutBasic(d, th, basic_row, i) ==
    IF i > Len(th) THEN d
    ELSE PutBasic(IF i <= Len(basic_row) THEN Put(d, th[i], basic_row[i]) ELSE d,
                  th, basic_row, i + 1)

RECURSIVE PutZip(_, _, _, _)
\* "for header, value in zip(headers, data): row_data[f'{header}_AD'] = value"
PutZip(d, hs, vs, i) ==
    IF i > Min(Len(hs), Len(vs)) THEN d
    ELSE PutZip(Put(d, hs[i] \o "_AD", vs[i]), hs, vs, i + 1)

row_data(email, app_number, details_data, th) ==
    LET identity == [c \in {"Email", "Application Number"} |->
                        IF c = "Email" THEN email ELSE app_number]
        basic == PutBasic(identity, th, details_data.basic_row, 1)
        col1 == PutZip(basic, details_data.headers_col1, details_data.data_col1, 1)
    IN  PutZip(col1, details_data.headers_col3, details_data.data_col3, 1)

(***************************************************************************)
(* The artifact: csv_file = [header |-> list of names, rows |-> list of    *)
(* lists of values]; a header of <<>> stands for a file that is not there. *)
(***************************************************************************)
NoFile == [header |-> <<>>, rows |-> <<>>]

\* initialize_csv_file: "headers = list(set(headers))" leaves the order to the
\* hash seed, so every order of the distinct names is a possible file
initialize_csv_file(th, adh) ==
    {[header |-> order, rows |-> <<>>] :
        order \in Perms({"Email", "Application Number"} \cup Range(th) \cup Range(adh))}

\* "row[0] == email and row[1] == str(app_number)" raises IndexError on a
\* row too short to have the cell it reads
RowRaises(row, email) == Len(row) = 0 \/ (Len(row) = 1 /\ row[1] = email)

RowMatches(row, email, app_number) ==
    Len(row) >= 2 /\ row[1] = email /\ row[2] = app_number

\* row_index of update_csv_with_email_data, 0 for the code's -1
row_index(rows, email, app_number) ==
    IF \E i \in DOMAIN rows : RowMatches(rows[i], email, app_number)
    THEN CHOOSE i \in DOMAIN rows :
            /\ RowMatches(rows[i], email, app_number)
            /\ \A j \in 1..(i - 1) : ~RowMatches(rows[j], email, app_number)
    ELSE 0

\* the scan for row_index raises before it finds a row
ScanRaises(rows, email, app_number) ==
    \E i \in DOMAIN rows :
        /\ RowRaises(rows[i], email)
        /\ \A j \in 1..(i - 1) : ~RowMatches(rows[j], email, app_number)

\* a row filled by position: the email and the application number first,
\* where the scan for row_index looks for them
row_by_position(header, rd) ==
    [i \in DOMAIN header |->
        IF i = 1 THEN rd["Email"]
        ELSE IF i = 2 THEN rd["Application Number"]
        ELSE IF header[i] \in DOMAIN rd THEN rd[header[i]] ELSE ""]

\* "new_row.append(row_data.get(header, ''))" for every header of the file
new_row(header, rd) ==
    [i \in DOMAIN header |-> IF header[i] \in DOMAIN rd THEN rd[header[i]] ELSE ""]

\* "if header in row_data: existing_data[row_index][i] = row_data[header]";
\* an index beyond the row's end raises IndexError
UpdateRaises(header, row, rd) ==
    \E i \in DOMAIN header : header[i] \in DOMAIN rd /\ i > Len(row)

updated_row(header, row, rd) ==
    [i \in DOMAIN row |->
        IF i \in DOMAIN header /\ header[i] \in DOMAIN rd THEN rd[header[i]] ELSE row[i]]

\* update_csv_with_email_data: the file after the call. Every exception is
\* caught and logged by the method, and the file was not yet reopened for
\* writing, so it keeps its content.
update_csv_with_email_data(file, email, app_number, details_data, th) ==
    LET rd == row_data(email, app_number, details_data, th)
        k == row_index(file.rows, email, app_number)
    IN  IF file.header = <<>> \/ ScanRaises(file.rows, email, app_number) THEN file
        ELSE IF k = 0
             THEN [file EXCEPT !.rows = Append(@, new_row(file.header, rd))]
             ELSE IF UpdateRaises(file.header, file.rows[k], rd) THEN file
                  ELSE [file EXCEPT !.rows[k] = updated_row(file.header, @, rd)]

\* update_csv_with_email_data: its try block raises before the file is
\* reopened for writing (no header line to read, IndexError in the scan or in
\* the update of the row found)
update_raises(file, email, app_number, details_data, th) ==
    LET rd == row_data(email, app_number, details_data, th)
        k == row_index(file.rows, email, app_number)
    IN  \/ file.header = <<>>
        \/ ScanRaises(file.rows, email, app_number)
        \/ k # 0 /\ UpdateRaises(file.header, file.rows[k], rd)

(***************************************************************************)
(* update_csv_with_specific_row, the upsert keyed by the application       *)
(* number alone, which rebuilds the header row from the column selection.  *)
(***************************************************************************)
\* create_unique_header: header.replace('App_Details_Tab_', '').strip() + "_AD",
\* over the header texts of SpecificRowArgs
create_unique_header(header) ==
    (IF header = "App_Details_Tab_Owner" THEN "Owner" ELSE header) \o "_AD"

unique_headers(hs) == [i \in DOMAIN hs |-> create_unique_header(hs[i])]

\* "base_headers = ['Application Number']" and the selected basic columns
base_headers(th, selected_basic_columns) ==
    <<"Application Number">> \o
    SelectSeq(th, LAMBDA col : col # "Application Number" /\ col \in selected_basic_columns)

\* "[h for h in unique_headers if h in selected_ad_columns]"
filtered_headers(uh, selected_ad_columns) ==
    SelectSeq(uh, LAMBDA h : h \in selected_ad_columns)

RECURSIVE filtered_data(_, _, _)
\* "[v for h, v in zip(unique_headers, data) if h in selected_ad_columns]"
filtered_data(uh, data, selected_ad_columns) ==
    IF uh = <<>> \/ data = <<>> THEN <<>>
    ELSE (IF Head(uh) \in selected_ad_columns THEN <<Head(data)>> ELSE <<>>)
         \o filtered_data(Tail(uh), Tail(data), selected_ad_columns)

all_headers(th, selected_basic_columns, selected_ad_columns, args) ==
    base_headers(th, selected_basic_columns)
    \o filtered_headers(unique_headers(args.headers_col1), selected_ad_columns)
    \o filtered_headers(unique_headers(args.headers_col3), selected_ad_columns)

\* "next((r for r in existing[1:] if r and r[0] == str(app_number)), None)",
\* 0 for None
target_index(rows, app) ==
    IF \E i \in DOMAIN rows : rows[i] # <<>> /\ rows[i][1] = app
    THEN CHOOSE i \in DOMAIN rows :
            /\ rows[i] # <<>> /\ rows[i][1] = app
            /\ \A j \in 1..(i - 1) : ~(rows[j] # <<>> /\ rows[j][1] = app)
    ELSE 0

\* "while len(target_row) < len(all_headers): target_row.append('')"
padded(row, n) == [i \in 1..(IF Len(row) < n THEN n ELSE Len(row)) |->
                      IF i <= Len(row) THEN row[i] ELSE ""]

RECURSIVE mapped(_, _, _, _)
\* "for header, value in zip(filtered_headers, filtered_data):
\*      target_row[header_map[header]] = value"
mapped(row, hs, vs, headers) ==
    IF hs = <<>> \/ vs = <<>> THEN row
    ELSE mapped([row EXCEPT ![LastIndex(headers, Head(hs))] = Head(vs)],
                Tail(hs), Tail(vs), headers)

\* the file after update_csv_with_specific_row; selected_basic_columns and
\* selected_ad_columns are read before the new detail headers are selected
update_csv_with_specific_row(file, app, args, th, selected_basic_columns, selected_ad_columns) ==
    LET headers == all_headers(th, selected_basic_columns, selected_ad_columns, args)
        u1 == unique_headers(args.headers_col1)
        u3 == unique_headers(args.headers_col3)
        k0 == target_index(file.rows, app)
        rows0 == IF k0 = 0
                 THEN Append(file.rows,
                             [i \in 1..Len(headers) |-> IF i = 1 THEN app ELSE ""])
                 ELSE file.rows
        k == IF k0 = 0 THEN Len(rows0) ELSE k0
        row1 == mapped(padded(rows0[k], Len(headers)),
                       filtered_headers(u1, selected_ad_columns),
                       filtered_data(u1, args.data_col1, selected_ad_columns), headers)
        row3 == mapped(row1,
                       filtered_headers(u3, selected_ad_columns),
                       filtered_data(u3, args.data_col3, selected_ad_columns), headers)
    IN  IF file.header = <<>> THEN file
        ELSE [header |-> headers, rows |-> [rows0 EXCEPT ![k] = row3]]

RECURSIVE PutPairs(_, _, _)
PutPairs(d, hs, vs) ==
    IF hs = <<>> \/ vs = <<>> THEN d
    ELSE PutPairs(Put(d, Head(hs), Head(vs)), Tail(hs), Tail(vs))

\* the field map update_csv_with_specific_row is called with: the
\* application number and the detail columns with their values
specific_fields(app, args) ==
    PutPairs(PutPairs([c \in {"Application Number"} |-> app],
                      unique_headers(args.headers_col1), args.data_col1),
             unique_headers(args.headers_col3), args.data_col3)

\* "for header in unique_headers_col1 + unique_headers_col3:
\*      if header not in self.ad_headers: ... self.ad_headers.append(header)"
discovered_ad_headers(adh, args) ==
    AppendNew(adh, unique_headers(args.headers_col1) \o unique_headers(args.headers_col3))

(***************************************************************************)
(* The in-memory header lists.                                             *)
(***************************************************************************)
\* extract_table_data: "if table_headers and len(table_headers) > 0:
\*                          self.table_headers = table_headers"
extracted_headers(th, page_headers) ==
    IF page_headers # <<>> THEN page_headers ELSE th

\* extract_table_data: the numbers of the page, filtered by the list the
\* user gave when there is one
extracted_numbers(numbers, page_numbers) ==
    IF numbers # <<>> THEN FilterSeq(page_numbers, Range(numbers)) ELSE page_numbers

\* update_headers: names not yet in the list are appended to it
update_headers(lst, names) == AppendNew(lst, names)

(***************************************************************************)
(* One run of src/tkinter.py.                                              *)
(***************************************************************************)
\* the paths of the settings files: _get_data_path(filename, use_config) of
\* src/PatentAutomationApp.py, and the two files of src/tkinter.py
get_data_path(filename, use_config) ==
    IF use_config THEN "config/" \o filename ELSE filename

SettingsPaths ==
    {get_data_path(f, c) : f \in {"patent_column_settings.csv", "patent_filter_settings.csv"},
                           c \in BOOLEAN}
    \cup {"config/patent_filters_default.csv", "config/patent_settings_default.csv"}

\* no settings file exists; <<>> stands for a file that is not there
NoSettingsFiles == [path \in SettingsPaths |-> <<>>]

\* nothing was saved yet
NeverSaved == [saved |-> FALSE, columns |-> {}, filters |-> {}]

NoOp == [op |-> "none", email |-> "", app_number |-> "", fields |-> <<>>,
         before |-> NoFile]

\* log_message(...) of the retry loop: the kind of message, the application
\* it names and the number it prints
LogEntry(kind, app, n) == [kind |-> kind, app |-> app, n |-> n]

Init ==
    /\ running = FALSE
    /\ stop_event = FALSE
    /\ driver = "none"
    /\ application_numbers = <<>>
    /\ table_headers = <<"Application Number">>
    /\ ad_headers = <<"Title_AD">>
    /\ column_vars = {"Application Number", "Title_AD"}
    /\ ad_column_vars = {}
    /\ csv_file = NoFile
    /\ pc = "idle"
    /\ all_emails = <<>>
    /\ email_index = 0
    /\ attempt = 0
    /\ failed_applications = {}
    /\ processed_numbers = {}
    /\ current_failed_applications = {}
    /\ current_applications = <<>>
    /\ pos = 0
    /\ initial_numbers = <<>>
    /\ log = <<>>
    /\ last_op = NoOp
    /\ ops = 0
    /\ outcome = "none"
    /\ filter_settings = <<>>
    /\ filtered_rows = <<>>
    /\ filtered_file = NoFile
    /\ filter_log = <<>>
    /\ pending = NoFile
    /\ completed = {}
    /\ settings_files = NoSettingsFiles
    /\ last_saved = NeverSaved

loop_vars == <<attempt, failed_applications, processed_numbers,
               current_failed_applications, current_applications, pos, initial_numbers>>

\* start_processing: the text of the application-number box is split into a
\* list, the artifact is created anew, the worker thread is started
start_processing ==
    /\ ~running
    /\ pc = "idle"
    /\ running' = TRUE
    /\ stop_event' = FALSE
    /\ \E numbers \in UserNumberTexts : application_numbers' = numbers
    /\ csv_file' \in initialize_csv_file(table_headers, ad_headers)
    /\ pc' = "workflow"
    /\ outcome' = "none"
    /\ UNCHANGED <<driver, table_headers, ad_headers, selection_vars, side_vars, all_emails,
                   email_index, loop_vars, log, last_op>>

\* full_workflow up to the email loop: the browser is there, all_emails is
\* the primary email followed by the extra emails that differ from it
full_workflow_begin ==
    /\ pc = "workflow"
    /\ driver' = "open"
    /\ \E extra \in ExtraEmailTexts :
          all_emails' = <<PrimaryEmail>> \o SelectSeq(extra, LAMBDA e : e # PrimaryEmail)
    /\ email_index' = 1
    /\ pc' = "email_loop"
    /\ UNCHANGED <<running, stop_event, application_numbers, table_headers, ad_headers,
                   selection_vars, outcome, side_vars, csv_file, loop_vars, log, last_op>>

\* full_workflow: no way of starting Edge worked
full_workflow_no_driver ==
    /\ pc = "workflow"
    /\ pc' = "finally"
    /\ UNCHANGED <<running, stop_event, driver, application_numbers, table_headers,
                   ad_headers, selection_vars, outcome, side_vars, csv_file, all_emails, email_index,
                   loop_vars, log, last_op>>

\* "for email_index, current_email in enumerate(all_emails, 1):
\*      if self.stop_event.is_set(): break"
full_workflow_next_email ==
    /\ pc = "email_loop"
    /\ pc' = IF email_index > Len(all_emails) \/ stop_event THEN "completed" ELSE "extract"
    /\ outcome' = IF email_index <= Len(all_emails) /\ stop_event THEN "aborted" ELSE outcome
    /\ UNCHANGED <<running, stop_event, driver, application_numbers, table_headers,
                   ad_headers, selection_vars, side_vars, csv_file, all_emails, email_index,
                   loop_vars, log, last_op>>

\* navigation, select_user, set_page_size or extract_table_data raised:
\* "except Exception ... continue"
full_workflow_email_failed ==
    /\ pc = "extract"
    /\ email_index' = email_index + 1
    /\ pc' = "email_loop"
    /\ UNCHANGED <<running, stop_event, driver, application_numbers, table_headers,
                   ad_headers, selection_vars, outcome, side_vars, csv_file, all_emails, loop_vars, log,
                   last_op>>

\* extract_table_data, given the header cells and the first cells of the
\* rows of the page
extract_table_data ==
    /\ pc = "extract"
    /\ driver = "open"
    /\ \E page_headers \in PageHeaders, page_numbers \in AppLists :
          /\ table_headers' = extracted_headers(table_headers, page_headers)
          /\ application_numbers' = extracted_numbers(application_numbers, page_numbers)
    /\ pc' = "process"
    /\ UNCHANGED <<running, stop_event, driver, ad_headers, selection_vars, outcome, side_vars, csv_file,
                   all_emails, email_index, loop_vars, log, last_op>>

\* process_email_applications, before the loop over the attempts
process_email_applications ==
    /\ pc = "process"
    /\ attempt' = 0
    /\ failed_applications' = {}
    /\ processed_numbers' = {}
    /\ initial_numbers' = application_numbers
    /\ pc' = "pass"
    /\ UNCHANGED <<running, stop_event, driver, application_numbers, table_headers,
                   ad_headers, selection_vars, outcome, side_vars, csv_file, all_emails, email_index,
                   current_failed_applications, current_applications, pos, log, last_op>>

\* the head of "for attempt in range(max_retries + 1)"
pass_begin ==
    /\ pc = "pass"
    /\ current_failed_applications' = {}
    /\ current_applications' = application_numbers
    /\ pos' = 1
    /\ pc' = "iter"
    /\ UNCHANGED <<running, stop_event, driver, application_numbers, table_headers,
                   ad_headers, selection_vars, outcome, side_vars, csv_file, all_emails, email_index,
                   attempt, failed_applications, processed_numbers, initial_numbers,
                   log, last_op>>

app_number == current_applications[pos]

\* a loop that fetches again what it has already processed
NeverSkipped(app) == FALSE

\* "if app_number in processed_numbers: continue"
AlreadyProcessed(app) == app \in processed_numbers

\* a failure that is logged but not kept
failure_lost(failed, app) == failed

\* "current_failed_applications.add(app_number)"
record_failure(failed, app) == failed \cup {app}

\* a failure that ends the pass
pass_left(p, applications) == Len(applications) + 1

\* after the except clause the inner loop takes the next app_number
after_failure(p, applications) == p + 1

\* a working list that is not replaced by the failed set
applications_kept(failed) == {application_numbers}

\* "self.application_numbers = list(failed_applications)": a list made of a
\* set, in any order
next_applications(failed) == Perms(failed)

skip_processed ==
    /\ pc = "iter"
    /\ pos <= Len(current_applications)
    /\ AlreadyProcessed(app_number)
    /\ pos' = pos + 1
    /\ UNCHANGED <<running, stop_event, driver, application_numbers, table_headers,
                   ad_headers, selection_vars, outcome, side_vars, csv_file, pc, all_emails, email_index,
                   attempt, failed_applications, processed_numbers,
                   current_failed_applications, current_applications, initial_numbers,
                   log, last_op>>

\* a loop that does not look at the stop event
stop_ignored == FALSE

\* "self.stop_event.is_set()"
stop_requested == stop_event

\* "if self.stop_event.is_set(): ... return", back in the email loop
abort_on_stop ==
    /\ pc = "iter"
    /\ pos <= Len(current_applications)
    /\ ~AlreadyProcessed(app_number)
    /\ stop_requested
    /\ log' = Append(log, LogEntry("aborted", "", 0))
    /\ pc' = "return"
    /\ outcome' = "aborted"
    /\ UNCHANGED <<running, stop_event, driver, application_numbers, table_headers,
                   ad_headers, selection_vars, side_vars, csv_file, all_emails, email_index,
                   loop_vars, last_op>>

\* the try block is entered: "Processing application ... (Attempt n)" and
\* the call of get_application_details
begin_fetch ==
    /\ pc = "iter"
    /\ pos <= Len(current_applications)
    /\ ~AlreadyProcessed(app_number)
    /\ ~stop_requested
    /\ log' = Append(log, LogEntry("processing", app_number, attempt + 1))
    /\ pc' = "fetching"
    /\ UNCHANGED <<running, stop_event, driver, application_numbers, table_headers,
                   ad_headers, selection_vars, outcome, side_vars, csv_file, all_emails, email_index,
                   loop_vars, last_op>>

\* get_application_details returned: the row is upserted and the number is
\* marked as processed
fetch_succeeded ==
    /\ pc = "fetching"
    /\ driver = "open"
    /\ \E details_data \in DetailsData :
          /\ csv_file' = update_csv_with_email_data(csv_file, all_emails[email_index],
                                                    app_number, details_data, table_headers)
          /\ last_op' = [op |-> "update_csv_with_email_data",
                         email |-> all_emails[email_index],
                         app_number |-> app_number,
                         fields |-> row_data(all_emails[email_index], app_number,
                                             details_data, table_headers),
                         before |-> csv_file]
    /\ processed_numbers' = processed_numbers \cup {app_number}
    /\ log' = Append(log, LogEntry("success", app_number, attempt + 1))
    /\ pos' = pos + 1
    /\ pc' = "iter"
    /\ UNCHANGED <<running, stop_event, driver, application_numbers, table_headers,
                   ad_headers, selection_vars, outcome, side_vars, all_emails, email_index, attempt,
                   failed_applications, current_failed_applications,
                   current_applications, initial_numbers>>

\* get_application_details raised: "except Exception as e: ...
\* current_failed_applications.add(app_number)"
fetch_failed ==
    /\ pc = "fetching"
    /\ current_failed_applications' = record_failure(current_failed_applications, app_number)
    /\ log' = Append(log, LogEntry("error", app_number, attempt + 1))
    /\ pos' = after_failure(pos, current_applications)
    /\ pc' = "iter"
    /\ UNCHANGED <<running, stop_event, driver, application_numbers, table_headers,
                   ad_headers, selection_vars, outcome, side_vars, csv_file, all_emails, email_index,
                   attempt, failed_applications, processed_numbers,
                   current_applications, initial_numbers, last_op>>

\* after the inner loop, "if attempt < max_retries": the failed set becomes
\* the next working list, or the loop over the attempts is left when
\* nothing failed
pass_end_retry ==
    /\ pc = "iter"
    /\ pos > Len(current_applications)
    /\ attempt < max_retries
    /\ failed_applications' = current_failed_applications
    /\ IF current_failed_applications = {}
       THEN /\ pc' = "summary"
            /\ UNCHANGED <<application_numbers, attempt, log>>
       ELSE /\ application_numbers' \in next_applications(current_failed_applications)
            /\ log' = Append(log, LogEntry("retry", "",
                                           Cardinality(current_failed_applications)))
            /\ attempt' = attempt + 1
            /\ pc' = "pass"
    /\ UNCHANGED <<running, stop_event, driver, table_headers, ad_headers,
                   selection_vars, outcome, side_vars, csv_file, all_emails, email_index, processed_numbers,
                   current_failed_applications, current_applications, initial_numbers,
                   pos, last_op>>

RECURSIVE PermanentEntries(_)
PermanentEntries(order) ==
    IF order = <<>> THEN <<>>
    ELSE <<LogEntry("permanent", Head(order), 0)>> \o PermanentEntries(Tail(order))

\* after the inner loop of the last attempt: "Failed to process application
\* ..." for every member of current_failed_applications
pass_end_final ==
    /\ pc = "iter"
    /\ pos > Len(current_applications)
    /\ attempt >= max_retries
    /\ \E order \in Perms(current_failed_applications) :
          log' = log \o PermanentEntries(order)
    /\ pc' = "summary"
    /\ UNCHANGED <<running, stop_event, driver, application_numbers, table_headers,
                   ad_headers, selection_vars, outcome, side_vars, csv_file, all_emails, email_index,
                   loop_vars, last_op>>

\* the two closing messages of process_email_applications
summary ==
    /\ pc = "summary"
    /\ log' = log \o <<LogEntry("processed", "", Cardinality(processed_numbers))>>
                  \o (IF failed_applications # {}
                      THEN <<LogEntry("failed", "", Cardinality(failed_applications))>>
                      ELSE <<>>)
    /\ pc' = "return"
    /\ UNCHANGED <<running, stop_event, driver, application_numbers, table_headers,
                   ad_headers, selection_vars, outcome, side_vars, csv_file, all_emails, email_index,
                   loop_vars, last_op>>

\* process_email_applications returns into the email loop: its local
\* variables are gone, the next email is taken
return_to_email_loop ==
    /\ pc = "return"
    /\ attempt' = 0
    /\ failed_applications' = {}
    /\ processed_numbers' = {}
    /\ current_failed_applications' = {}
    /\ current_applications' = <<>>
    /\ pos' = 0
    /\ initial_numbers' = <<>>
    /\ log' = <<>>
    /\ email_index' = email_index + 1
    /\ pc' = "email_loop"
    /\ UNCHANGED <<running, stop_event, driver, application_numbers, table_headers,
                   ad_headers, selection_vars, outcome, side_vars, csv_file, all_emails, last_op>>

\* "All email processing completed", open_output_file
full_workflow_completed ==
    /\ pc = "completed"
    /\ log' = Append(log, LogEntry("completed", "", 0))
    /\ pc' = "finally"
    /\ UNCHANGED <<running, stop_event, driver, application_numbers, table_headers,
                   ad_headers, selection_vars, outcome, side_vars, csv_file, all_emails, email_index,
                   loop_vars, last_op>>

\* the finally block of full_workflow
full_workflow_finally ==
    /\ pc = "finally"
    /\ running' = FALSE
    /\ driver' = "none"
    /\ pc' = "done"
    /\ UNCHANGED <<stop_event, application_numbers, table_headers, ad_headers,
                   selection_vars, outcome, side_vars, csv_file, all_emails, email_index, loop_vars, log,
                   last_op>>

\* stop_process, in the foreground
stop_process ==
    /\ running
    /\ stop_event' = TRUE
    /\ driver' = IF driver = "open" THEN "quit" ELSE driver
    /\ running' = FALSE
    /\ UNCHANGED <<application_numbers, table_headers, ad_headers, selection_vars, outcome, side_vars,
                   csv_file, pc, all_emails, email_index, loop_vars, log, last_op>>

Next ==
    \/ start_processing
    \/ full_workflow_begin
    \/ full_workflow_no_driver
    \/ full_workflow_next_email
    \/ full_workflow_email_failed
    \/ extract_table_data
    \/ process_email_applications
    \/ pass_begin
    \/ skip_processed
    \/ abort_on_stop
    \/ begin_fetch
    \/ fetch_succeeded
    \/ fetch_failed
    \/ pass_end_retry
    \/ pass_end_final
    \/ summary
    \/ return_to_email_loop
    \/ full_workflow_completed
    \/ full_workflow_finally
    \/ stop_process

Spec == Init /\ [][Next]_vars

(***************************************************************************)
(* The store on its own: the file initialize_csv_file wrote for the        *)
(* default header lists, and the operations on it in any order.            *)
(***************************************************************************)
StoreEmails == {"p@x", "a@x"}

StoreDetails ==
    DetailsData \cup
    { [basic_row |-> <<>>, headers_col1 |-> <<"Agent">>, data_col1 |-> <<"Baz">>,
       headers_col3 |-> <<>>, data_col3 |-> <<>>] }

SpecificRowArgs ==
    { [headers_col1 |-> <<"Agent">>, data_col1 |-> <<"Bar">>,
       headers_col3 |-> <<>>, data_col3 |-> <<>>],
      [headers_col1 |-> <<"Agent">>, data_col1 |-> <<"Baz">>,
       headers_col3 |-> <<"App_Details_Tab_Owner">>, data_col3 |-> <<"Own">>],
      [headers_col1 |-> <<>>, data_col1 |-> <<>>,
       headers_col3 |-> <<>>, data_col3 |-> <<>>] }

StorePageHeaders == {<<"Application Number", "Action">>}

InitStore ==
    /\ running = FALSE
    /\ stop_event = FALSE
    /\ driver = "none"
    /\ application_numbers = <<>>
    /\ table_headers = <<"Application Number", "Status">>
    /\ ad_headers = <<"Title_AD">>
    /\ column_vars = {"Application Number", "Status", "Title_AD"}
    /\ ad_column_vars = {}
    /\ csv_file \in initialize_csv_file(<<"Application Number", "Status">>, <<"Title_AD">>)
    /\ pc = "store"
    /\ all_emails = <<>>
    /\ email_index = 0
    /\ attempt = 0
    /\ failed_applications = {}
    /\ processed_numbers = {}
    /\ current_failed_applications = {}
    /\ current_applications = <<>>
    /\ pos = 0
    /\ initial_numbers = <<>>
    /\ log = <<>>
    /\ last_op = NoOp
    /\ ops = 0
    /\ outcome = "none"
    /\ filter_settings = <<>>
    /\ filtered_rows = <<>>
    /\ filtered_file = NoFile
    /\ filter_log = <<>>
    /\ pending = NoFile
    /\ completed = {}
    /\ settings_files = NoSettingsFiles
    /\ last_saved = NeverSaved

run_vars == <<running, stop_event, driver, application_numbers, pc, all_emails,
              email_index, loop_vars, log>>

\* update_csv_with_email_data(csv_file, email, app_number, details_data)
upsert_email_data ==
    /\ pc = "store"
    /\ ops < MaxOps
    /\ \E email \in StoreEmails, app \in Apps, details_data \in StoreDetails :
          /\ csv_file' = update_csv_with_email_data(csv_file, email, app, details_data,
                                                    table_headers)
          /\ last_op' = [op |-> "update_csv_with_email_data", email |-> email,
                         app_number |-> app,
                         fields |-> row_data(email, app, details_data, table_headers),
                         before |-> csv_file]
    /\ ops' = ops + 1
    /\ UNCHANGED <<table_headers, ad_headers, column_vars, ad_column_vars, run_vars, outcome, side_vars>>

\* update_csv_with_specific_row(csv_path, app_number, headers and data of
\* the two detail columns)
upsert_specific_row ==
    /\ pc = "store"
    /\ ops < MaxOps
    /\ \E app \in Apps, args \in SpecificRowArgs :
          /\ csv_file' = update_csv_with_specific_row(csv_file, app, args, table_headers,
                                                      column_vars, ad_column_vars)
          /\ ad_headers' = discovered_ad_headers(ad_headers, args)
          /\ ad_column_vars' = ad_column_vars \cup
                (Range(discovered_ad_headers(ad_headers, args)) \ Range(ad_headers))
          /\ last_op' = [op |-> "update_csv_with_specific_row", email |-> "",
                         app_number |-> app, fields |-> specific_fields(app, args),
                         before |-> csv_file]
    /\ ops' = ops + 1
    /\ UNCHANGED <<table_headers, column_vars, run_vars, outcome, side_vars>>

\* update_headers(basic_headers, ad_headers)
header_update ==
    /\ pc = "store"
    /\ ops < MaxOps
    /\ \E basic \in {<<"Application Number", "Action">>}, ad \in {<<"Title_AD", "Agent_AD">>} :
          /\ table_headers' = update_headers(table_headers, basic)
          /\ column_vars' = column_vars \cup (Range(basic) \ Range(table_headers))
          /\ ad_headers' = update_headers(ad_headers, ad)
          /\ ad_column_vars' = ad_column_vars \cup (Range(ad) \ Range(ad_headers))
    /\ ops' = ops + 1
    /\ UNCHANGED <<csv_file, last_op, run_vars, outcome, side_vars>>

\* the header cells extract_table_data reads from a page
table_extraction ==
    /\ pc = "store"
    /\ ops < MaxOps
    /\ \E page_headers \in StorePageHeaders :
          table_headers' = extracted_headers(table_headers, page_headers)
    /\ ops' = ops + 1
    /\ UNCHANGED <<ad_headers, column_vars, ad_column_vars, csv_file, last_op, run_vars, outcome, side_vars>>

NextUpsert == upsert_email_data

SpecUpsert == InitStore /\ [][NextUpsert]_vars

NextStore ==
    \/ table_extraction
    \/ header_update
    \/ upsert_email_data
    \/ upsert_specific_row

SpecStore == InitStore /\ [][NextStore]_vars

(***************************************************************************)
(* The try block of process_email_applications for one application, with   *)
(* the write of update_csv_with_email_data seen step by step: the file is  *)
(* read, reopened with mode 'w' (which empties it), written and closed.    *)
(***************************************************************************)
\* the open(csv_file, ...) calls of update_csv_with_email_data: the file is
\* opened, or OSError is raised (the file is locked by the program
\* open_output_file started, or gone) before anything is written
OpenResults == {"opened", "OSError"}

\* the file right after open(csv_file, 'w')
EmptyFile == [header |-> <<>>, rows |-> <<>>]

InitPersist ==
    /\ running = TRUE
    /\ stop_event = FALSE
    /\ driver = "open"
    /\ application_numbers = <<>>
    /\ table_headers = <<"Application Number", "Status">>
    /\ ad_headers = <<"Title_AD">>
    /\ column_vars = {"Application Number", "Status", "Title_AD"}
    /\ ad_column_vars = {}
    /\ csv_file \in initialize_csv_file(<<"Application Number", "Status">>, <<"Title_AD">>)
    /\ pc = "store"
    /\ all_emails = <<PrimaryEmail>>
    /\ email_index = 1
    /\ attempt = 0
    /\ failed_applications = {}
    /\ processed_numbers = {}
    /\ current_failed_applications = {}
    /\ current_applications = <<>>
    /\ pos = 0
    /\ initial_numbers = <<>>
    /\ log = <<>>
    /\ last_op = NoOp
    /\ ops = 0
    /\ outcome = "none"
    /\ filter_settings = <<>>
    /\ filtered_rows = <<>>
    /\ filtered_file = NoFile
    /\ filter_log = <<>>
    /\ pending = NoFile
    /\ completed = {csv_file}
    /\ settings_files = NoSettingsFiles
    /\ last_saved = NeverSaved

\* what the steps of the try block leave alone
call_vars == <<running, stop_event, driver, application_numbers, table_headers,
               ad_headers, column_vars, ad_column_vars, all_emails, email_index, attempt,
               failed_applications, current_failed_applications, current_applications,
               pos, initial_numbers, log, outcome, export_vars, settings_vars>>

\* get_application_details returned and update_csv_with_email_data is
\* called: the file is read and the new content is prepared in memory, or an
\* exception is raised inside the method's try block
update_begin ==
    /\ pc = "store"
    /\ ops < MaxOps
    /\ \E app \in Apps, details_data \in StoreDetails, opened \in OpenResults :
          LET email == all_emails[email_index]
          IN  /\ last_op' = [op |-> "update_csv_with_email_data", email |-> email,
                             app_number |-> app,
                             fields |-> row_data(email, app, details_data, table_headers),
                             before |-> csv_file]
              /\ IF opened = "OSError"
                    \/ update_raises(csv_file, email, app, details_data, table_headers)
                 THEN pc' = "caught" /\ pending' = pending
                 ELSE /\ pc' = "open_w"
                      /\ pending' = update_csv_with_email_data(csv_file, email, app,
                                                               details_data, table_headers)
    /\ ops' = ops + 1
    /\ UNCHANGED <<csv_file, processed_numbers, completed, call_vars>>

\* "with open(csv_file, 'w', ...) as f": the file is emptied
update_open_w ==
    /\ pc = "open_w"
    /\ csv_file' = EmptyFile
    /\ pc' = "write"
    /\ UNCHANGED <<processed_numbers, last_op, ops, pending, completed, call_vars>>

\* "writer.writerow(headers); writer.writerows(existing_data)" and the end of
\* the with block: the buffered lines reach the file
update_write ==
    /\ pc = "write"
    /\ csv_file' = pending
    /\ completed' = completed \cup {pending}
    /\ pc' = "returned"
    /\ UNCHANGED <<processed_numbers, last_op, ops, pending, call_vars>>

\* "except Exception as e: self.log_message(...)": the method returns
update_caught ==
    /\ pc = "caught"
    /\ pc' = "returned"
    /\ UNCHANGED <<csv_file, processed_numbers, last_op, ops, persist_vars, call_vars>>

\* "processed_numbers.add(app_number)"
mark_processed ==
    /\ pc = "returned"
    /\ processed_numbers' = processed_numbers \cup {last_op.app_number}
    /\ pc' = "store"
    /\ UNCHANGED <<csv_file, last_op, ops, persist_vars, call_vars>>

NextPersist ==
    \/ update_begin
    \/ update_open_w
    \/ update_write
    \/ update_caught
    \/ mark_processed

SpecPersist == InitPersist /\ [][NextPersist]_vars

\* the same with update_csv_with_specific_row as a second writer of the file
NextWriters ==
    \/ update_begin
    \/ update_open_w
    \/ update_write
    \/ update_caught
    \/ mark_processed
    \/ upsert_specific_row

SpecWriters == InitPersist /\ [][NextWriters]_vars

(***************************************************************************)
(* generate_filtered_data.  The texts it compares are modelled as          *)
(* sequences of characters, so that strip, "in", startswith and endswith   *)
(* are computed; the artifact is read from the disk as it is there (left   *)
(* by an earlier run, or saved from the program open_output_file starts).  *)
(***************************************************************************)
MaxCellLen == 3
MaxValueLen == 2

Chars == {" ", "a"}

\* the texts of at most n characters
Texts(n) == UNION {[1..k -> Chars] : k \in 0..n}

\* the operators the combobox offers, and one it does not
Operators == {"--", "IS", "BLANK", "CONTAINS", "STARTS WITH", "ENDS WITH", "REGEX"}

RECURSIVE lstrip(_)
lstrip(s) == IF s # <<>> /\ Head(s) = " " THEN lstrip(Tail(s)) ELSE s

RECURSIVE rstrip(_)
rstrip(s) == IF s # <<>> /\ s[Len(s)] = " " THEN rstrip(SubSeq(s, 1, Len(s) - 1)) ELSE s

\* str.strip()
strip(s) == rstrip(lstrip(s))

\* "value in cell_value"
contains(cell_value, value) ==
    \E i \in 0..(Len(cell_value) - Len(value)) :
        SubSeq(cell_value, i + 1, i + Len(value)) = value

\* cell_value.startswith(value)
startswith(cell_value, value) ==
    Len(value) <= Len(cell_value) /\ SubSeq(cell_value, 1, Len(value)) = value

\* cell_value.endswith(value)
endswith(cell_value, value) ==
    /\ Len(value) <= Len(cell_value)
    /\ SubSeq(cell_value, Len(cell_value) - Len(value) + 1, Len(cell_value)) = value

\* csv.DictReader: every data row as a dict from the names of the header
\* line to the row's values
DictReader(file) ==
    [i \in DOMAIN file.rows |->
        [h \in Range(file.header) |->
            file.rows[i][CHOOSE k \in DOMAIN file.header : file.header[k] = h]]]

\* row.get(header, "")
get(row, header) == IF header \in DOMAIN row THEN row[header] ELSE <<>>

\* the if / elif chain of one filter: include_row is set to False
excludes(settings, row) ==
    LET operator == settings.operator
        value == strip(settings.value)
        cell_value == get(row, settings.header)
    IN  \/ operator = "IS" /\ cell_value # value
        \/ operator = "BLANK" /\ cell_value # <<>>
        \/ operator = "CONTAINS" /\ ~contains(cell_value, value)
        \/ operator = "STARTS WITH" /\ ~startswith(cell_value, value)
        \/ operator = "ENDS WITH" /\ ~endswith(cell_value, value)

RECURSIVE include_row(_, _)
\* "for header, settings in self.filter_settings.items(): ...
\*      if not include_row: break"
include_row(row, all_settings) ==
    IF all_settings = <<>> THEN TRUE
    ELSE IF excludes(Head(all_settings), row) THEN FALSE
         ELSE include_row(row, Tail(all_settings))

\* filtered_rows: the rows for which include_row is left True
filter_rows(rows, all_settings) ==
    SelectSeq(rows, LAMBDA row : include_row(row, all_settings))

\* "selected_headers = [header for header in headers if
\*      self.column_vars.get(header, IntVar(value=0)).get() == 1]"
selected_headers(headers, selected) == SelectSeq(headers, LAMBDA header : header \in selected)

\* the export: "{header: row[header] for header in selected_headers if header
\* in row}" written by a DictWriter with fieldnames=selected_headers
export(rows, headers) ==
    [header |-> headers,
     rows |-> [i \in DOMAIN rows |->
                  [k \in DOMAIN headers |-> get(rows[i], headers[k])]]]

\* the filters a settings dict can hold for a header
FiltersFor(header) ==
    {[header |-> header, operator |-> operator, value |-> value] :
        operator \in Operators, value \in Texts(MaxValueLen)}

\* self.filter_settings as __init__ leaves it (retrieve_filter_settings reads
\* any three-cell line of patent_filters_default.csv), in the two orders
FilterSettings ==
    UNION {{<<f, g>>, <<g, f>>} : f \in FiltersFor("Status"), g \in FiltersFor("Agent_AD")}

InitFilter ==
    /\ running = FALSE
    /\ stop_event = FALSE
    /\ driver = "none"
    /\ application_numbers = <<>>
    /\ table_headers = <<"Application Number", "Status">>
    /\ ad_headers = <<"Agent_AD">>
    /\ column_vars = {"Application Number", "Status", "Agent_AD"}
    /\ ad_column_vars = {}
    /\ csv_file \in {[header |-> <<"Application Number", "Status">>,
                      rows |-> <<<< <<"a">>, cell_value >>>>] : cell_value \in Texts(MaxCellLen)}
    /\ pc = "ready"
    /\ all_emails = <<>>
    /\ email_index = 0
    /\ attempt = 0
    /\ failed_applications = {}
    /\ processed_numbers = {}
    /\ current_failed_applications = {}
    /\ current_applications = <<>>
    /\ pos = 0
    /\ initial_numbers = <<>>
    /\ log = <<>>
    /\ last_op = NoOp
    /\ ops = 0
    /\ outcome = "none"
    /\ filter_settings \in FilterSettings
    /\ filtered_rows = <<>>
    /\ filtered_file = NoFile
    /\ filter_log = <<>>
    /\ pending = NoFile
    /\ completed = {}
    /\ settings_files = NoSettingsFiles
    /\ last_saved = NeverSaved

\* generate_filtered_data, the command of the "Generate Filtered Data" button
generate_filtered_data ==
    /\ pc = "ready"
    /\ filtered_rows' = filter_rows(DictReader(csv_file), filter_settings)
    /\ filtered_file' = export(filter_rows(DictReader(csv_file), filter_settings),
                               selected_headers(table_headers \o ad_headers, column_vars))
    /\ filter_log' = Append(filter_log, "Filtered data saved")
    /\ pc' = "generated"
    /\ UNCHANGED <<running, stop_event, driver, application_numbers, table_headers,
                   ad_headers, selection_vars, csv_file, all_emails, email_index, loop_vars,
                   log, last_op, outcome, filter_settings, persist_vars, settings_vars>>

NextFilter == generate_filtered_data

SpecFilter == InitFilter /\ [][NextFilter]_vars

(***************************************************************************)
(* The column window and the export: the check boxes of the two tabs, the  *)
(* select-all and deselect-all buttons, and generate_filtered_data on the  *)
(* artifact a run left.                                                    *)
(***************************************************************************)
\* the artifact after initialize_csv_file and one upsert
ExportRowData ==
    [c \in {"Email", "Application Number", "Status", "Title_AD"} |->
        CASE c = "Email" -> "p@x"
          [] c = "Application Number" -> "A1"
          [] c = "Status" -> "New"
          [] c = "Title_AD" -> "Foo"]

InitExport ==
    /\ running = FALSE
    /\ stop_event = FALSE
    /\ driver = "none"
    /\ application_numbers = <<>>
    /\ table_headers = <<"Application Number", "Status">>
    /\ ad_headers = <<"Title_AD">>
    /\ column_vars = {"Application Number", "Status", "Title_AD"}
    /\ ad_column_vars = {}
    /\ csv_file \in {[f EXCEPT !.rows = <<new_row(f.header, ExportRowData)>>] :
                       f \in initialize_csv_file(<<"Application Number", "Status">>,
                                                 <<"Title_AD">>)}
    /\ pc = "ready"
    /\ all_emails = <<>>
    /\ email_index = 0
    /\ attempt = 0
    /\ failed_applications = {}
    /\ processed_numbers = {}
    /\ current_failed_applications = {}
    /\ current_applications = <<>>
    /\ pos = 0
    /\ initial_numbers = <<>>
    /\ log = <<>>
    /\ last_op = NoOp
    /\ ops = 0
    /\ outcome = "none"
    /\ filter_settings = <<>>
    /\ filtered_rows = <<>>
    /\ filtered_file = NoFile
    /\ filter_log = <<>>
    /\ pending = NoFile
    /\ completed = {}
    /\ settings_files = NoSettingsFiles
    /\ last_saved = NeverSaved

\* what the buttons of the column window leave alone
window_vars == <<running, stop_event, driver, application_numbers, table_headers,
                 ad_headers, csv_file, pc, all_emails, email_index, loop_vars, log, last_op,
                 ops, outcome, side_vars>>

\* a Checkbutton of the "Basic Columns" tab: variable=self.column_vars[header],
\* for every header but "Application Number"
toggle_basic_column ==
    /\ pc = "ready"
    /\ \E header \in Range(table_headers) \ {"Application Number"} :
          column_vars' = IF header \in column_vars THEN column_vars \ {header}
                         ELSE column_vars \cup {header}
    /\ UNCHANGED <<ad_column_vars, window_vars>>

\* a Checkbutton of the "Application Details" tab:
\* variable=self.ad_column_vars[header]
toggle_ad_column ==
    /\ pc = "ready"
    /\ \E header \in Range(ad_headers) :
          ad_column_vars' = IF header \in ad_column_vars THEN ad_column_vars \ {header}
                            ELSE ad_column_vars \cup {header}
    /\ UNCHANGED <<column_vars, window_vars>>

\* "for column, var in self.column_vars.items(): var.set(1)"
select_all_basic_columns ==
    /\ pc = "ready"
    /\ column_vars' = Range(table_headers) \cup Range(ad_headers)
    /\ UNCHANGED <<ad_column_vars, window_vars>>

\* "for column, var in self.column_vars.items(): var.set(0)"
deselect_all_basic_columns ==
    /\ pc = "ready"
    /\ column_vars' = {}
    /\ UNCHANGED <<ad_column_vars, window_vars>>

NextExport ==
    \/ toggle_basic_column
    \/ toggle_ad_column
    \/ select_all_basic_columns
    \/ deselect_all_basic_columns
    \/ generate_filtered_data

SpecExport == InitExport /\ [][NextExport]_vars

(***************************************************************************)
(* The email loop of full_workflow for two recipients, with what the       *)
(* portal's pages hold for the applications A1 and A2 and with the         *)
(* exception a failed fetch raised kept in the message of the log.         *)
(***************************************************************************)
RunEmails == <<"p@x", "a@x">>

\* the application-number box: left empty, or naming both applications
RunNumberTexts == {<<>>, <<"A1", "A2">>}

\* the header lists retrieve_headers_from_csv finds in the headers file
RunAdHeaders == {<<>>, <<"Status_AD", "Title_AD">>}

\* thead cells of the page of a recipient
RunPageHeaders == {<<>>, <<"Application Number">>}

\* the first cells of the rows of the page of a recipient; a page lists an
\* application once, so "if app_number in processed_numbers: continue" is
\* never taken
RunPages == {<<"A1", "A2">>, <<"A2", "A1">>}

\* what get_application_details returns for the application: the details
\* page of A1 has the field Status, that of A2 the fields Status and Title
RunDetails(app) ==
    IF app = "A1"
    THEN [basic_row |-> <<>>, headers_col1 |-> <<"Status">>, data_col1 |-> <<"New">>,
          headers_col3 |-> <<>>, data_col3 |-> <<>>]
    ELSE [basic_row |-> <<>>, headers_col1 |-> <<"Status">>, data_col1 |-> <<"Closed">>,
          headers_col3 |-> <<"Title">>, data_col3 |-> <<"Foo">>]

\* str(e) of the exception a fetch raises: a timeout of the page, or an
\* application the portal does not know
Exceptions == {"Transient", "Fatal"}

\* "Attempt n: Error processing application ...: {str(e)}"
ErrorEntry(app, n, e) == [kind |-> "error", app |-> app, n |-> n, e |-> e]

InitRun ==
    /\ running = TRUE
    /\ stop_event = FALSE
    /\ driver = "open"
    /\ application_numbers \in RunNumberTexts
    /\ table_headers = <<"Application Number">>
    /\ ad_headers \in RunAdHeaders
    /\ column_vars = Range(table_headers) \cup Range(ad_headers)
    /\ ad_column_vars = {}
    /\ csv_file \in initialize_csv_file(table_headers, ad_headers)
    /\ pc = "email_loop"
    /\ all_emails = RunEmails
    /\ email_index = 1
    /\ attempt = 0
    /\ failed_applications = {}
    /\ processed_numbers = {}
    /\ current_failed_applications = {}
    /\ current_applications = <<>>
    /\ pos = 0
    /\ initial_numbers = <<>>
    /\ log = <<>>
    /\ last_op = NoOp
    /\ ops = 0
    /\ outcome = "none"
    /\ filter_settings = <<>>
    /\ filtered_rows = <<>>
    /\ filtered_file = NoFile
    /\ filter_log = <<>>
    /\ pending = NoFile
    /\ completed = {}
    /\ settings_files = NoSettingsFiles
    /\ last_saved = NeverSaved

\* extract_table_data on the page of the recipient
extract_page ==
    /\ pc = "extract"
    /\ driver = "open"
    /\ \E page_headers \in RunPageHeaders, page_numbers \in RunPages :
          /\ table_headers' = extracted_headers(table_headers, page_headers)
          /\ application_numbers' = extracted_numbers(application_numbers, page_numbers)
    /\ pc' = "process"
    /\ UNCHANGED <<running, stop_event, driver, ad_headers, selection_vars, outcome, side_vars, csv_file,
                   all_emails, email_index, loop_vars, log, last_op>>

\* get_application_details returned what the portal holds for the
\* application: the row is upserted and the number is marked as processed
fetch_returned ==
    /\ pc = "fetching"
    /\ driver = "open"
    /\ csv_file' = update_csv_with_email_data(csv_file, all_emails[email_index], app_number,
                                              RunDetails(app_number), table_headers)
    /\ last_op' = [op |-> "update_csv_with_email_data",
                   email |-> all_emails[email_index],
                   app_number |-> app_number,
                   fields |-> row_data(all_emails[email_index], app_number,
                                       RunDetails(app_number), table_headers),
                   before |-> csv_file]
    /\ processed_numbers' = processed_numbers \cup {app_number}
    /\ log' = Append(log, LogEntry("success", app_number, attempt + 1))
    /\ pos' = pos + 1
    /\ pc' = "iter"
    /\ UNCHANGED <<running, stop_event, driver, application_numbers, table_headers,
                   ad_headers, selection_vars, outcome, side_vars, all_emails, email_index, attempt,
                   failed_applications, current_failed_applications,
                   current_applications, initial_numbers>>

\* get_application_details raised e: "except Exception as e: ...
\* current_failed_applications.add(app_number)", whatever e is
fetch_raised ==
    /\ pc = "fetching"
    /\ current_failed_applications' = record_failure(current_failed_applications, app_number)
    /\ \E e \in Exceptions : log' = Append(log, ErrorEntry(app_number, attempt + 1, e))
    /\ pos' = after_failure(pos, current_applications)
    /\ pc' = "iter"
    /\ UNCHANGED <<running, stop_event, driver, application_numbers, table_headers,
                   ad_headers, selection_vars, outcome, side_vars, csv_file, all_emails, email_index,
                   attempt, failed_applications, processed_numbers,
                   current_applications, initial_numbers, last_op>>

NextRun ==
    \/ full_workflow_next_email
    \/ extract_page
    \/ process_email_applications
    \/ pass_begin
    \/ begin_fetch
    \/ fetch_returned
    \/ fetch_raised
    \/ pass_end_retry
    \/ pass_end_final
    \/ summary
    \/ return_to_email_loop

SpecRun == InitRun /\ [][NextRun]_vars

(***************************************************************************)
(* The threads: start_processing and stop_process in the foreground, and   *)
(* every thread start_processing has started running full_workflow. Here   *)
(* pc, pos and current_applications are kept per thread; a thread makes    *)
(* one pass over its copy of the application numbers. The log keeps who    *)
(* wrote the message.                                                      *)
(***************************************************************************)
MaxThreads == 2    \* threads start_processing starts in one behaviour

Threads == 1..MaxThreads

\* the application-number box at a start
ThreadNumberTexts == {<<"A1">>, <<"A1", "A2">>}

\* a message of the log and the thread that wrote it (0: the foreground)
ThreadEntry(kind, thread, app) == [kind |-> kind, thread |-> thread, app |-> app]

\* what the foreground and the threads leave alone
thread_frame == <<table_headers, ad_headers, selection_vars, side_vars, all_emails,
                  email_index, attempt, failed_applications, processed_numbers,
                  current_failed_applications, initial_numbers, last_op, outcome>>

InitThreads ==
    /\ running = FALSE
    /\ stop_event = FALSE
    /\ driver = "none"
    /\ application_numbers = <<>>
    /\ table_headers = <<"Application Number">>
    /\ ad_headers = <<>>
    /\ column_vars = {"Application Number"}
    /\ ad_column_vars = {}
    /\ csv_file = NoFile
    /\ pc = [t \in Threads |-> "unstarted"]
    /\ all_emails = <<PrimaryEmail>>
    /\ email_index = 1
    /\ attempt = 0
    /\ failed_applications = {}
    /\ processed_numbers = {}
    /\ current_failed_applications = {}
    /\ current_applications = [t \in Threads |-> <<>>]
    /\ pos = [t \in Threads |-> 0]
    /\ initial_numbers = <<>>
    /\ log = <<>>
    /\ last_op = NoOp
    /\ ops = 0
    /\ outcome = "none"
    /\ filter_settings = <<>>
    /\ filtered_rows = <<>>
    /\ filtered_file = NoFile
    /\ filter_log = <<>>
    /\ pending = NoFile
    /\ completed = {}
    /\ settings_files = NoSettingsFiles
    /\ last_saved = NeverSaved

\* start_processing: "if not self.running:", the flag is set, the stop event
\* is cleared, the numbers are read from the box, the artifact is created
\* anew and a new thread is started
start_new_thread ==
    /\ ~running
    /\ \E t \in Threads :
          /\ pc[t] = "unstarted"
          /\ \A u \in Threads : u < t => pc[u] # "unstarted"
          /\ pc' = [pc EXCEPT ![t] = "workflow"]
          /\ log' = Append(log, ThreadEntry("started", t, ""))
    /\ running' = TRUE
    /\ stop_event' = FALSE
    /\ \E numbers \in ThreadNumberTexts : application_numbers' = numbers
    /\ csv_file' \in initialize_csv_file(table_headers, ad_headers)
    /\ UNCHANGED <<driver, current_applications, pos, thread_frame>>

\* full_workflow up to the loop over the applications: the browser is
\* started into self.driver, the thread copies self.application_numbers
thread_workflow ==
    \E t \in Threads :
        /\ pc[t] = "workflow"
        /\ driver' = "open"
        /\ current_applications' = [current_applications EXCEPT ![t] = application_numbers]
        /\ pos' = [pos EXCEPT ![t] = 1]
        /\ pc' = [pc EXCEPT ![t] = "poll"]
        /\ UNCHANGED <<running, stop_event, application_numbers, log, csv_file, thread_frame>>

\* "if self.stop_event.is_set(): ... return"
thread_abort ==
    \E t \in Threads :
        /\ pc[t] = "poll"
        /\ pos[t] <= Len(current_applications[t])
        /\ stop_event
        /\ log' = Append(log, ThreadEntry("aborted", t, ""))
        /\ pc' = [pc EXCEPT ![t] = "finally"]
        /\ UNCHANGED <<running, stop_event, driver, application_numbers,
                       current_applications, pos, csv_file, thread_frame>>

\* the stop event is not set: "Processing application ..." and the call of
\* get_application_details
thread_begin_fetch ==
    \E t \in Threads :
        /\ pc[t] = "poll"
        /\ pos[t] <= Len(current_applications[t])
        /\ ~stop_event
        /\ log' = Append(log, ThreadEntry("processing", t, current_applications[t][pos[t]]))
        /\ pc' = [pc EXCEPT ![t] = "fetching"]
        /\ UNCHANGED <<running, stop_event, driver, application_numbers,
                       current_applications, pos, csv_file, thread_frame>>

\* the fetch returned or raised; the loop takes the next application
thread_end_fetch ==
    \E t \in Threads :
        /\ pc[t] = "fetching"
        /\ pos' = [pos EXCEPT ![t] = @ + 1]
        /\ pc' = [pc EXCEPT ![t] = "poll"]
        /\ UNCHANGED <<running, stop_event, driver, application_numbers,
                       current_applications, log, csv_file, thread_frame>>

\* the loop over the applications is over
thread_loop_end ==
    \E t \in Threads :
        /\ pc[t] = "poll"
        /\ pos[t] > Len(current_applications[t])
        /\ pc' = [pc EXCEPT ![t] = "finally"]
        /\ UNCHANGED <<running, stop_event, driver, application_numbers,
                       current_applications, pos, log, csv_file, thread_frame>>

\* the finally block of full_workflow; the thread ends
thread_finally ==
    \E t \in Threads :
        /\ pc[t] = "finally"
        /\ running' = FALSE
        /\ driver' = "none"
        /\ pc' = [pc EXCEPT ![t] = "done"]
        /\ UNCHANGED <<stop_event, application_numbers, current_applications, pos, log,
                       csv_file, thread_frame>>

\* stop_process: "if self.running:", the event is set, "Aborting process..."
\* is logged, the browser is quit and the flag is reset
stop_threads ==
    /\ running
    /\ stop_event' = TRUE
    /\ log' = Append(log, ThreadEntry("aborting", 0, ""))
    /\ driver' = IF driver = "open" THEN "quit" ELSE driver
    /\ running' = FALSE
    /\ UNCHANGED <<application_numbers, pc, current_applications, pos, csv_file, thread_frame>>

NextThreads ==
    \/ start_new_thread
    \/ thread_workflow
    \/ thread_abort
    \/ thread_begin_fetch
    \/ thread_end_fetch
    \/ thread_loop_end
    \/ thread_finally
    \/ stop_threads

SpecThreads == InitThreads /\ [][NextThreads]_vars

(***************************************************************************)
(* The settings from one start of the program to the next: the column      *)
(* check boxes and the filter rows, the files they are saved to and the    *)
(* files they are loaded from. pc tells which program is running:          *)
(* src/PatentAutomationApp.py ("app_closed", "app_open") or                *)
(* src/tkinter.py ("tk_closed", "ready").                                  *)
(***************************************************************************)
\* the entries of the operator Combobox and the texts of the value Entry
SettingOperators == {"--", "IS"}
SettingValues == {"", "a"}

\* the headers both programs read from config/patent_headers_default.csv
SettingsBasicHeaders == <<"Application Number", "Status">>
SettingsAdHeaders == <<"Title_AD">>

\* one entry of the filter settings: the stored operator and value, and the
\* StringVar of the Combobox and the text of the Entry
Setting(header, operator, value) ==
    [header |-> header, operator |-> operator, value |-> value,
     operator_var |-> operator, value_var |-> value]

\* the settings on the screen: the checked columns and, for every filter
\* row, the operator and the value it shows
ShownSettings ==
    [saved |-> TRUE,
     columns |-> IF pc = "app_open" THEN column_vars
                 ELSE {"Application Number"} \cup (column_vars \cap Range(table_headers))
                      \cup (ad_column_vars \cap Range(ad_headers)),
     filters |-> {<<filter_settings[i].header, filter_settings[i].operator_var,
                    filter_settings[i].value_var>> : i \in DOMAIN filter_settings}]

\* str(var.get()) of a BooleanVar
BoolText(b) == IF b THEN "True" ELSE "False"

\* str.lower() on the texts a settings file holds
lower(s) == IF s = "True" THEN "true" ELSE IF s = "False" THEN "false" ELSE s

\* PatentAutomationApp.py, save_column_settings: the keys and the values of
\* self.column_vars, written to the file in the config folder
save_column_settings(files, keys, checked) ==
    [files EXCEPT ![get_data_path("patent_column_settings.csv", TRUE)] =
        <<keys, [i \in DOMAIN keys |-> BoolText(keys[i] \in checked)]>>]

\* PatentAutomationApp.py, save_filter_settings: the keys and the values of
\* self.filter_conditions and the texts of self.filter_entries
app_save_filter_settings(files, settings) ==
    [files EXCEPT ![get_data_path("patent_filter_settings.csv", TRUE)] =
        <<[i \in DOMAIN settings |-> settings[i].header],
          [i \in DOMAIN settings |-> settings[i].operator],
          [i \in DOMAIN settings |-> settings[i].value_var]>>]

\* PatentAutomationApp.py, load_column_settings: the file beside the script
\* is read; without it (or with fewer than two lines) the defaults are
\* created and saved
load_column_settings(files, default_headers) ==
    LET rows == files[get_data_path("patent_column_settings.csv", FALSE)]
    IN  IF Len(rows) >= 2 /\ Len(rows[2]) >= Len(rows[1])
        THEN [keys |-> rows[1],
              column_vars |-> {rows[1][i] : i \in {k \in DOMAIN rows[1] :
                                                      lower(rows[2][k]) = "true"}},
              files |-> files]
        ELSE [keys |-> default_headers,
              column_vars |-> Range(default_headers),
              files |-> save_column_settings(files, default_headers, Range(default_headers))]

\* PatentAutomationApp.py, load_filter_settings with populate_filter_fields
load_filter_settings(files, default_headers) ==
    LET rows == files[get_data_path("patent_filter_settings.csv", FALSE)]
        defaults == [i \in DOMAIN default_headers |-> Setting(default_headers[i], "--", "")]
    IN  IF Len(rows) >= 3 /\ Len(rows[2]) >= Len(rows[1]) /\ Len(rows[3]) >= Len(rows[1])
        THEN [filter_settings |-> [i \in DOMAIN rows[1] |->
                                      Setting(rows[1][i], rows[2][i], rows[3][i])],
              files |-> files]
        ELSE [filter_settings |-> defaults,
              files |-> app_save_filter_settings(files, defaults)]

\* tkinter.py, save_filter_settings: one line of header, operator and value
\* for every item of self.filter_settings
save_filter_settings(files, settings) ==
    [files EXCEPT !["config/patent_filters_default.csv"] =
        [i \in DOMAIN settings |->
            <<settings[i].header, settings[i].operator, settings[i].value>>]]

\* tkinter.py, retrieve_filter_settings: every line of three cells
retrieve_filter_settings(files) ==
    LET rows == SelectSeq(files["config/patent_filters_default.csv"],
                          LAMBDA row : Len(row) = 3)
    IN  [i \in DOMAIN rows |-> Setting(rows[i][1], rows[i][2], rows[i][3])]

\* tkinter.py, save_user_settings: a line of header and IntVar for every
\* item of self.column_vars and of self.ad_column_vars (after the lines of
\* the email, the folder and the two text boxes, which are left out here)
user_settings(th, adh, checked, ad_checked) ==
    LET keys == th \o adh
    IN  [i \in DOMAIN keys |-> <<keys[i], IF keys[i] \in checked THEN "1" ELSE "0">>]
        \o [i \in DOMAIN adh |-> <<adh[i], IF adh[i] \in ad_checked THEN "1" ELSE "0">>]

\* the headers that have a row in the window of show_column_selection
WindowHeaders ==
    SelectSeq(table_headers, LAMBDA header : header # "Application Number") \o ad_headers

\* what the handlers of the settings leave alone
settings_frame == <<running, stop_event, driver, application_numbers, csv_file, all_emails,
                    email_index, loop_vars, log, last_op, ops, outcome, filtered_rows,
                    filtered_file, filter_log, persist_vars>>

InitSettings ==
    /\ running = FALSE
    /\ stop_event = FALSE
    /\ driver = "none"
    /\ application_numbers = <<>>
    /\ table_headers = SettingsBasicHeaders
    /\ ad_headers \in {<<>>, SettingsAdHeaders}
    /\ column_vars = {}
    /\ ad_column_vars = {}
    /\ csv_file = NoFile
    /\ pc = IF ad_headers = <<>> THEN "app_closed" ELSE "tk_closed"
    /\ all_emails = <<>>
    /\ email_index = 0
    /\ attempt = 0
    /\ failed_applications = {}
    /\ processed_numbers = {}
    /\ current_failed_applications = {}
    /\ current_applications = <<>>
    /\ pos = 0
    /\ initial_numbers = <<>>
    /\ log = <<>>
    /\ last_op = NoOp
    /\ ops = 0
    /\ outcome = "none"
    /\ filter_settings = <<>>
    /\ filtered_rows = <<>>
    /\ filtered_file = NoFile
    /\ filter_log = <<>>
    /\ pending = NoFile
    /\ completed = {}
    /\ settings_files = NoSettingsFiles
    /\ last_saved = NeverSaved

\* PatentAutomationApp.py, __init__: load_column_settings, load_filter_settings
app_start ==
    /\ pc = "app_closed"
    /\ LET c == load_column_settings(settings_files, table_headers)
           f == load_filter_settings(c.files, table_headers)
       IN  /\ table_headers' = c.keys
           /\ column_vars' = c.column_vars
           /\ filter_settings' = f.filter_settings
           /\ settings_files' = f.files
    /\ pc' = "app_open"
    /\ UNCHANGED <<ad_headers, ad_column_vars, last_saved, settings_frame>>

\* PatentAutomationApp.py: a Checkbutton of populate_column_checkboxes
app_toggle_column ==
    /\ pc = "app_open"
    /\ \E header \in Range(table_headers) :
          column_vars' = IF header \in column_vars THEN column_vars \ {header}
                         ELSE column_vars \cup {header}
    /\ UNCHANGED <<table_headers, ad_headers, ad_column_vars, filter_settings, settings_vars,
                   pc, settings_frame>>

\* PatentAutomationApp.py: the Combobox (self.filter_vars[header]) and the
\* Entry (self.filter_entries[header]) of a row of populate_filter_fields
app_edit_filter ==
    /\ pc = "app_open"
    /\ \E i \in DOMAIN filter_settings, operator \in SettingOperators, value \in SettingValues :
          filter_settings' = [filter_settings EXCEPT ![i].operator_var = operator,
                                                     ![i].value_var = value]
    /\ UNCHANGED <<table_headers, ad_headers, column_vars, ad_column_vars, settings_vars,
                   pc, settings_frame>>

\* PatentAutomationApp.py, save_settings: save_column_settings and
\* save_filter_settings
app_save_settings ==
    /\ pc = "app_open"
    /\ settings_files' = app_save_filter_settings(
                            save_column_settings(settings_files, table_headers, column_vars),
                            filter_settings)
    /\ last_saved' = ShownSettings
    /\ UNCHANGED <<table_headers, ad_headers, column_vars, ad_column_vars, filter_settings,
                   pc, settings_frame>>

\* PatentAutomationApp.py, on_close: the window is destroyed
app_close ==
    /\ pc = "app_open"
    /\ column_vars' = {}
    /\ filter_settings' = <<>>
    /\ pc' = "app_closed"
    /\ UNCHANGED <<table_headers, ad_headers, ad_column_vars, settings_vars, settings_frame>>

\* tkinter.py, __init__: retrieve_filter_settings, and an IntVar of 1 in
\* self.column_vars for every header of both lists
tk_start ==
    /\ pc = "tk_closed"
    /\ filter_settings' = retrieve_filter_settings(settings_files)
    /\ column_vars' = Range(table_headers) \cup Range(ad_headers)
    /\ ad_column_vars' = {}
    /\ pc' = "ready"
    /\ UNCHANGED <<table_headers, ad_headers, settings_vars, settings_frame>>

RECURSIVE with_default_settings(_, _)
\* "if header not in self.filter_settings: self.filter_settings[header] = ..."
with_default_settings(settings, headers) ==
    IF headers = <<>> THEN settings
    ELSE with_default_settings(
            IF \E i \in DOMAIN settings : settings[i].header = Head(headers) THEN settings
            ELSE Append(settings, Setting(Head(headers), "--", "")),
            Tail(headers))

\* tkinter.py, show_column_selection: the rows of the window get their
\* variables; an IntVar that is missing is created with 0
show_column_selection ==
    /\ pc = "ready"
    /\ filter_settings' = with_default_settings(filter_settings, WindowHeaders)
    /\ UNCHANGED <<table_headers, ad_headers, column_vars, ad_column_vars, settings_vars,
                   pc, settings_frame>>

\* tkinter.py: the Combobox (operator_var) and the Entry (value_var) of a
\* row of the window
edit_filter ==
    /\ pc = "ready"
    /\ \E i \in DOMAIN filter_settings, operator \in SettingOperators, value \in SettingValues :
          filter_settings' = [filter_settings EXCEPT ![i].operator_var = operator,
                                                     ![i].value_var = value]
    /\ UNCHANGED <<table_headers, ad_headers, column_vars, ad_column_vars, settings_vars,
                   pc, settings_frame>>

\* tkinter.py, save_and_close_column_window (the OK button): the variables
\* of every row are copied into the settings, save_filter_settings
save_and_close_column_window ==
    /\ pc = "ready"
    /\ \A k \in DOMAIN WindowHeaders :
          \E i \in DOMAIN filter_settings : filter_settings[i].header = WindowHeaders[k]
    /\ LET copied == [i \in DOMAIN filter_settings |->
                         IF filter_settings[i].header \in Range(WindowHeaders)
                         THEN [filter_settings[i] EXCEPT
                                  !.operator = filter_settings[i].operator_var,
                                  !.value = filter_settings[i].value_var]
                         ELSE filter_settings[i]]
       IN  /\ filter_settings' = copied
           /\ settings_files' = save_filter_settings(settings_files, copied)
    /\ last_saved' = ShownSettings
    /\ UNCHANGED <<table_headers, ad_headers, column_vars, ad_column_vars, pc, settings_frame>>

\* tkinter.py, save_user_settings, called by start_processing
save_user_settings ==
    /\ pc = "ready"
    /\ settings_files' = [settings_files EXCEPT !["config/patent_settings_default.csv"] =
                             user_settings(table_headers, ad_headers, column_vars,
                                           ad_column_vars)]
    /\ UNCHANGED <<table_headers, ad_headers, column_vars, ad_column_vars, filter_settings,
                   last_saved, pc, settings_frame>>

\* tkinter.py, on_close: the window is destroyed
tk_close ==
    /\ pc = "ready"
    /\ column_vars' = {}
    /\ ad_column_vars' = {}
    /\ filter_settings' = <<>>
    /\ pc' = "tk_closed"
    /\ UNCHANGED <<table_headers, ad_headers, settings_vars, settings_frame>>

NextSettings ==
    \/ app_start
    \/ app_toggle_column
    \/ app_edit_filter
    \/ app_save_settings
    \/ app_close
    \/ tk_start
    \/ show_column_selection
    \/ toggle_basic_column
    \/ toggle_ad_column
    \/ edit_filter
    \/ save_and_close_column_window
    \/ save_user_settings
    \/ tk_close

SpecSettings == InitSettings /\ [][NextSettings]_vars

(***************************************************************************)
(* Properties.                                                             *)
(***************************************************************************)
IsPrefix(s, t) == Len(s) <= Len(t) /\ \A i \in DOMAIN s : s[i] = t[i]

\* the value a row holds for a column of the header, "" where the row has
\* no cell for it
Cell(header, row, c) ==
    IF \E i \in DOMAIN header : header[i] = c /\ i <= Len(row)
    THEN row[CHOOSE i \in DOMAIN header :
                header[i] = c /\ \A j \in 1..(i - 1) : header[j] # c]
    ELSE ""

RowKey(file, i) ==
    <<Cell(file.header, file.rows[i], "Email"),
      Cell(file.header, file.rows[i], "Application Number")>>

\* the row of `file` that carries the identity of the operation `op`
CarriesIdentity(file, i, op) ==
    /\ Cell(file.header, file.rows[i], "Application Number") = op.app_number
    /\ op.op = "update_csv_with_email_data"
          => Cell(file.header, file.rows[i], "Email") = op.email

\* C1: after any sequence of upserts into the file initialize_csv_file
\* wrote, no two data rows carry the same (Email, Application Number) pair.
CompositeKeyUnique ==
    \A i, j \in DOMAIN csv_file.rows :
        i # j => RowKey(csv_file, i) # RowKey(csv_file, j)

\* C2: an upsert leaves alone every column of the identity's row that its
\* field map omits, and every column of every other row.
UpsertFrame ==
    last_op.op # "none" =>
        \A i \in DOMAIN last_op.before.rows :
            \A c \in Range(last_op.before.header) :
                (~CarriesIdentity(last_op.before, i, last_op) \/ c \notin DOMAIN last_op.fields)
                    => /\ i \in DOMAIN csv_file.rows
                       /\ Cell(csv_file.header, csv_file.rows[i], c)
                             = Cell(last_op.before.header, last_op.before.rows[i], c)

\* C3: every data row has as many values as the header has columns.
RowLengthInvariant ==
    \A i \in DOMAIN csv_file.rows : Len(csv_file.rows[i]) = Len(csv_file.header)

\* C4: the header lists in memory and the header row of the artifact only
\* grow at the end: what was there stays, in place.
SchemaAppendOnly ==
    [][/\ IsPrefix(table_headers, table_headers')
       /\ IsPrefix(ad_headers, ad_headers')
       /\ IsPrefix(csv_file.header, csv_file'.header)]_vars

\* C5: after update_csv_with_email_data every column of the field map is a
\* column of the header row, and the identity's row holds the field map's
\* value for it.
DiscoveredColumnsKept ==
    last_op.op = "update_csv_with_email_data" =>
        \A c \in DOMAIN last_op.fields :
            /\ Contains(csv_file.header, c)
            /\ \E i \in DOMAIN csv_file.rows :
                  /\ CarriesIdentity(csv_file, i, last_op)
                  /\ Cell(csv_file.header, csv_file.rows[i], c) = last_op.fields[c]

\* the fetches the running retry loop has started for an application
FetchCount(a) ==
    Cardinality({i \in DOMAIN log : log[i].kind = "processing" /\ log[i].app = a})

\* C6: the retry loop makes at most max_retries + 1 passes and fetches no
\* application more than max_retries + 1 times.
RetryBound ==
    /\ attempt <= max_retries
    /\ \A i \in DOMAIN log : log[i].kind = "processing" => log[i].n <= max_retries + 1
    /\ \A a \in Apps : FetchCount(a) <= max_retries + 1

\* the applications logged as permanent failures
PermanentlyFailed == {log[i].app : i \in {k \in DOMAIN log : log[k].kind = "permanent"}}

\* C7: no application is both processed and logged as a permanent failure,
\* and when the loop over the attempts has ended without an abort every
\* application of the list it started with is one or the other.
OutcomesDisjointAndComplete ==
    /\ processed_numbers \cap PermanentlyFailed = {}
    /\ pc = "summary" =>
          \A a \in Range(initial_numbers) : a \in processed_numbers \cup PermanentlyFailed

\* one application processed, the other failed for good
OutcomesWitness ==
    /\ pc = "summary"
    /\ "A1" \in processed_numbers
    /\ "A2" \in PermanentlyFailed
    /\ Range(initial_numbers) = {"A1", "A2"}

\* the applications whose fetch failed in pass n
ErrorsAt(n) == {log[i].app : i \in {k \in DOMAIN log : log[k].kind = "error" /\ log[k].n = n}}

\* C8: a pass after the first works on exactly the applications whose fetch
\* failed in the pass before it, and is only made when there were any.
NextPassIsFailedSet ==
    /\ (pc = "pass" /\ attempt >= 1)
          => Range(application_numbers) = ErrorsAt(attempt) /\ ErrorsAt(attempt) # {}
    /\ (pc \in {"iter", "fetching"} /\ attempt >= 1)
          => Range(current_applications) = ErrorsAt(attempt) /\ ErrorsAt(attempt) # {}

\* a second pass over less than the first pass worked on
NextPassWitness ==
    /\ pc = "iter"
    /\ attempt = 1
    /\ processed_numbers # {}
    /\ Range(current_applications) # Range(initial_numbers)

\* C9: within one call of the retry loop, an application that has been
\* processed is not fetched again.
NoRefetchAfterSuccess ==
    \A i, j \in DOMAIN log :
        (i < j /\ log[i].kind = "success" /\ log[j].kind = "processing")
            => log[i].app # log[j].app

\* an application processed at its first occurrence in the working list and
\* passed over at its second
NoRefetchWitness ==
    /\ pc = "iter"
    /\ \E i, j \in DOMAIN current_applications :
          /\ i < j /\ j < pos
          /\ current_applications[i] = current_applications[j]
          /\ current_applications[i] \in processed_numbers
          /\ FetchCount(current_applications[i]) = 1

\* an application has been fetched in the running pass
AttemptedInPass(a) ==
    \E i \in DOMAIN log : log[i].kind = "processing" /\ log[i].app = a /\ log[i].n = attempt + 1

\* C10: a failed fetch is kept for its application and the pass goes on:
\* every application the pass has gone past is processed, or was fetched in
\* this pass and is in the failed set of the pass.
FailureDoesNotEndPass ==
    pc = "iter" =>
        /\ \A i \in DOMAIN current_applications :
              i < pos =>
                 \/ current_applications[i] \in processed_numbers
                 \/ /\ AttemptedInPass(current_applications[i])
                    /\ current_applications[i] \in current_failed_applications
        /\ \A k \in DOMAIN log :
              (log[k].kind = "error" /\ log[k].n = attempt + 1)
                  => log[k].app \in current_failed_applications

\* a pass that went to its end after a failure, and fetched another
\* application after the one that failed
FailureWitness ==
    /\ pc = "iter"
    /\ pos > Len(current_applications)
    /\ \E i, j \in DOMAIN log :
          /\ i < j
          /\ log[i].kind = "error" /\ log[i].n = attempt + 1
          /\ log[j].kind = "processing" /\ log[j].n = attempt + 1
          /\ log[i].app # log[j].app

\* the applications with a success message in the log of the retry loop
Finished == {log[i].app : i \in {k \in DOMAIN log : log[k].kind = "success"}}

Aborted == \E i \in DOMAIN log : log[i].kind = "aborted"

\* C11: a fetch is started only when the stop event is found clear; once it
\* is found set the retry loop does nothing more, and the applications not
\* finished by then are neither processed nor logged as permanent failures.
CancellationStopsLoop ==
    [][/\ (pc # "fetching" /\ pc' = "fetching") => ~stop_event
       /\ \A i \in DOMAIN log' : log'[i].kind = "aborted" => (i = Len(log') /\ pc' = "return")
       /\ Aborted' => (processed_numbers' = Finished' /\ PermanentlyFailed' = {})]_vars

\* the loop left on the stop event, with one application processed and
\* another one not
CancellationWitness ==
    /\ Aborted
    /\ processed_numbers # {}
    /\ Range(initial_numbers) \ processed_numbers # {}

\* C12: a run in which the stop event was seen logs no "All email processing
\* completed", and the retry loop that was left reports the applications it
\* did not get to.
AbortedOutcome ==
    /\ outcome = "aborted" => \A i \in DOMAIN log : log[i].kind # "completed"
    /\ Aborted => \E i \in DOMAIN log : log[i].kind = "not attempted"

\* C13: the artifact holds a row for the email and every application in
\* the processed set, also after a call of update_csv_with_email_data in
\* which an exception was raised.
SucceededIsPersisted ==
    \A a \in processed_numbers :
        \E i \in DOMAIN csv_file.rows :
            /\ Cell(csv_file.header, csv_file.rows[i], "Email") = all_emails[email_index]
            /\ Cell(csv_file.header, csv_file.rows[i], "Application Number") = a

\* C14: whenever the artifact is looked at, also between the steps of a
\* write, it is the header and the rows some finished write left.
ArtifactIsPrefix ==
    /\ csv_file.header # <<>>
    /\ csv_file \in completed

\* a file with a row that has more or fewer values than the header has names
Malformed(file) == \E i \in DOMAIN file.rows : Len(file.rows[i]) # Len(file.header)

\* C15: a call of update_csv_with_email_data that read a malformed artifact
\* neither rewrites the artifact nor lets its application be marked as
\* processed.
MalformedRefused ==
    [][(/\ pc \in {"caught", "open_w", "write", "returned"}
        /\ last_op.op = "update_csv_with_email_data"
        /\ Malformed(last_op.before))
         => (processed_numbers' = processed_numbers /\ csv_file' = csv_file)]_vars

\* the row is among the rows generate_filtered_data kept
Included(row) == \E i \in DOMAIN filtered_rows : filtered_rows[i] = row

\* the filter at position i is the only one with an operator other than "--"
OnlyFilter(i) ==
    \A j \in DOMAIN filter_settings : j # i => filter_settings[j].operator = "--"

\* a row satisfies a filter: the operators as the specification defines them
Satisfies(settings, row) ==
    LET v == get(row, settings.header)
    IN  CASE settings.operator = "IS" -> v = settings.value
          [] settings.operator = "BLANK" -> strip(v) = <<>>
          [] settings.operator = "CONTAINS" -> contains(v, settings.value)
          [] settings.operator = "STARTS WITH" -> startswith(v, settings.value)
          [] settings.operator = "ENDS WITH" -> endswith(v, settings.value)
          [] OTHER -> FALSE

\* C16: a row is kept exactly when it satisfies every filter whose operator
\* is not "--".
AllFiltersConjoined ==
    pc = "generated" =>
        \A r \in Range(DictReader(csv_file)) :
            Included(r) <=> \A i \in DOMAIN filter_settings :
                                filter_settings[i].operator # "--"
                                    => Satisfies(filter_settings[i], r)

\* C17: with IS as the only filter, a row is kept exactly when its value for
\* the column equals the configured value, character by character.
IsExactEquality ==
    pc = "generated" =>
        \A i \in DOMAIN filter_settings :
            (filter_settings[i].operator = "IS" /\ OnlyFilter(i)) =>
                \A r \in Range(DictReader(csv_file)) :
                    Included(r) <=> get(r, filter_settings[i].header) = filter_settings[i].value

\* C18: with BLANK as the only filter, a row is kept exactly when its value
\* for the column is empty once the whitespace around it is removed.
BlankIsTrimmedEmpty ==
    pc = "generated" =>
        \A i \in DOMAIN filter_settings :
            (filter_settings[i].operator = "BLANK" /\ OnlyFilter(i)) =>
                \A r \in Range(DictReader(csv_file)) :
                    Included(r) <=> strip(get(r, filter_settings[i].header)) = <<>>

\* C19: a filter with an operator that is none of "--", IS, BLANK, CONTAINS,
\* STARTS WITH, ENDS WITH keeps every row out, and a warning is logged.
UnknownOperatorFailsClosed ==
    (/\ pc = "generated"
     /\ \E i \in DOMAIN filter_settings :
           filter_settings[i].operator \notin
               {"--", "IS", "BLANK", "CONTAINS", "STARTS WITH", "ENDS WITH"})
        => /\ filtered_rows = <<>>
           /\ \E k \in DOMAIN filter_log : filter_log[k] = "Unknown operator"

\* C20: with CONTAINS, STARTS WITH or ENDS WITH as the only filter, a row is
\* kept exactly when the configured value is a substring, a prefix or a
\* suffix of its value for the column, "" for a column the row has not.
SubstringOperators ==
    pc = "generated" =>
        \A i \in DOMAIN filter_settings :
            OnlyFilter(i) =>
                \A r \in Range(DictReader(csv_file)) :
                    LET v == get(r, filter_settings[i].header)
                        value == filter_settings[i].value
                    IN  /\ filter_settings[i].operator = "CONTAINS"
                              => (Included(r) <=> contains(v, value))
                        /\ filter_settings[i].operator = "STARTS WITH"
                              => (Included(r) <=> startswith(v, value))
                        /\ filter_settings[i].operator = "ENDS WITH"
                              => (Included(r) <=> endswith(v, value))

\* the columns shown as selected: "Application Number" (always included),
\* the checked basic columns and the checked detail columns
Visible ==
    {"Application Number"}
        \cup (column_vars \cap Range(table_headers))
        \cup (ad_column_vars \cap Range(ad_headers))

\* the place of a name in a list of distinct names
IndexOf(names, x) == CHOOSE i \in DOMAIN names : names[i] = x

\* C21: the exported file has exactly the selected columns, in the relative
\* order they have in the header of the artifact, and every exported row
\* holds the artifact's value for each of them.
ExportIsSelection ==
    pc = "generated" =>
        /\ Range(filtered_file.header) = Visible
        /\ \A i, j \in DOMAIN filtered_file.header :
              (/\ i < j
               /\ Contains(csv_file.header, filtered_file.header[i])
               /\ Contains(csv_file.header, filtered_file.header[j]))
                  => IndexOf(csv_file.header, filtered_file.header[i])
                        < IndexOf(csv_file.header, filtered_file.header[j])
        /\ \A k \in DOMAIN filtered_file.rows :
              \A i \in DOMAIN filtered_file.header :
                  filtered_file.rows[k][i]
                      = get(DictReader(csv_file)[k], filtered_file.header[i])

\* the fetches of the call so far, with their outcome and their attempt
Fetches ==
    {<<log[i].kind, log[i].app, log[i].n>> :
        i \in {k \in DOMAIN log : log[k].kind \in {"success", "error"}}}

\* A1 succeeded at its first attempt, A2 failed twice and then succeeded, and
\* the call for the first recipient has returned
ScenarioRun ==
    /\ pc = "return"
    /\ email_index = 1
    /\ Fetches = {<<"success", "A1", 1>>, <<"error", "A2", 1>>,
                  <<"error", "A2", 2>>, <<"success", "A2", 3>>}

\* C22: after the run in which A1 succeeds at once with the field Status =
\* New and A2 fails twice and then succeeds with Status = Closed and Title =
\* Foo (the keys Status_AD and Title_AD of row_data), both are processed, the
\* artifact has exactly two rows, its header lists Status_AD before Title_AD,
\* and the row of A1 holds "" for Title_AD while the rows hold the values of
\* their field maps.
ScenarioReconciled ==
    ScenarioRun =>
        /\ processed_numbers = {"A1", "A2"}
        /\ Len(csv_file.rows) = 2
        /\ Contains(csv_file.header, "Status_AD") /\ Contains(csv_file.header, "Title_AD")
        /\ IndexOf(csv_file.header, "Status_AD") < IndexOf(csv_file.header, "Title_AD")
        /\ \E a, b \in DOMAIN csv_file.rows :
              /\ Cell(csv_file.header, csv_file.rows[a], "Application Number") = "A1"
              /\ Cell(csv_file.header, csv_file.rows[a], "Status_AD") = "New"
              /\ Cell(csv_file.header, csv_file.rows[a], "Title_AD") = ""
              /\ Cell(csv_file.header, csv_file.rows[b], "Application Number") = "A2"
              /\ Cell(csv_file.header, csv_file.rows[b], "Status_AD") = "Closed"
              /\ Cell(csv_file.header, csv_file.rows[b], "Title_AD") = "Foo"

\* C23: an application whose fetch raised a Fatal error in this call is not
\* fetched again: no fetch is in flight for an application the log has a
\* Fatal error for.
FatalNotRefetched ==
    pc = "fetching" =>
        \A i \in DOMAIN log :
            log[i].kind = "error" /\ log[i].app = app_number => log[i].e # "Fatal"

\* C25: the first pass of every recipient works on all the applications
\* selected for the run. The box names A1 and A2 or is empty, and every page
\* lists A1 and A2, so the selection is Apps for both recipients.
FirstPassIsSelection ==
    pc = "iter" /\ attempt = 0 => Range(current_applications) = Apps

\* the number the closing message "Failed to process n applications" prints,
\* 0 when the message is not logged
ReportedFailed ==
    IF \E i \in DOMAIN log : log[i].kind = "failed"
    THEN (log[CHOOSE i \in DOMAIN log : log[i].kind = "failed"]).n
    ELSE 0

\* C27: the number of failed applications in the closing summary is the
\* number that failed in the last pass of the call, and no application that
\* was processed is among those counted.
SummaryCountsFinalPass ==
    pc = "return" =>
        /\ ReportedFailed = Cardinality(current_failed_applications)
        /\ failed_applications \cap processed_numbers = {}

\* the threads that were started and have not ended
Alive == {t \in Threads : pc[t] \notin {"unstarted", "done"}}

\* C24: whatever the order of start_processing, stop_process and the steps
\* of the threads, at most one thread running full_workflow is alive.
AtMostOneWorker == Cardinality(Alive) <= 1

\* C28: a thread that was started before stop_process set the stop event
\* begins no fetch after it, whether or not start_processing was called
\* again in between.
NoFetchAfterStop ==
    \A i, j \in DOMAIN log :
        i < j /\ log[i].kind = "aborting" /\ log[j].kind = "processing"
        => ~\E k \in 1..(i - 1) : log[k].kind = "started" /\ log[k].thread = log[j].thread

\* C29: stop_process does not make the fetch in flight fail: while a fetch
\* is running the browser it uses is open, so that the fetch can return.
StopSparesFetchInFlight == pc = "fetching" => driver = "open"

\* the last call of update_csv_with_email_data appended a row
RowCreated ==
    /\ last_op.op = "update_csv_with_email_data"
    /\ Len(csv_file.rows) = Len(last_op.before.rows) + 1

\* C26: the row update_csv_with_email_data creates holds the email and the
\* application number of the call in the columns Email and Application
\* Number, whatever else the field map has, and "" in every column of the
\* header the field map does not name.
NewRowCarriesIdentity ==
    RowCreated =>
        LET r == csv_file.rows[Len(csv_file.rows)]
        IN  /\ Len(r) = Len(csv_file.header)
            /\ Cell(csv_file.header, r, "Email") = last_op.email
            /\ Cell(csv_file.header, r, "Application Number") = last_op.app_number
            /\ \A c \in Range(csv_file.header) \ DOMAIN last_op.fields :
                  Cell(csv_file.header, r, c) = ""

\* a row was created in a file whose first column is not Email, from a field
\* map that names Title_AD and not Status
NewRowWitness ==
    /\ RowCreated
    /\ csv_file.header[1] # "Email"
    /\ "Title_AD" \in DOMAIN last_op.fields
    /\ "Status" \notin DOMAIN last_op.fields
    /\ Len(csv_file.rows) >= 2

\* C30: at a start of the program the settings on the screen (the checked
\* columns, and the operator and the value of every filter row) are those
\* that were on the screen when the settings were last saved.
SettingsRestored ==
    [][(pc \in {"app_closed", "tk_closed"} /\ pc' \notin {"app_closed", "tk_closed"}
        /\ last_saved.saved)
       => ShownSettings' = last_saved]_vars

====
